---- MODULE Spec2Model ----
(***************************************************************************)
(* The generated service locator of go-service-locator                     *)
(* (test/service_locator_gen.go): a ServiceRegistry holding one singleton  *)
(* slot (ServiceA) and one named slot family (ServiceB), the               *)
(* serviceLocationContext that tracks the slots visited by one external    *)
(* Get call, and the CircularDependencyError it reports.  ServiceC is a    *)
(* second singleton slot whose code is ServiceA's with the letter changed; *)
(* it is not modelled separately.                                          *)
(*                                                                         *)
(* Goroutines are the members of procs.  Each has a call stack of frames;  *)
(* a frame is one activation of getServiceA/getServiceB (or of a Register  *)
(* method) and pc is the place in its code.  Factories are application     *)
(* code: a factory is described by the slots it requests, in order, by     *)
(* whether it returns the first error it receives, and by what it returns  *)
(* when it gets to its end.                                                *)
(***************************************************************************)
EXTENDS Naturals, Sequences, FiniteSets, TLC

\* Bounds of the model.
MaxCalls == 2          \* external Get calls started in one run
MaxRegs == 2           \* Register calls started in one run
MaxDepth == 4          \* frames on one goroutine's stack when factories call the registry itself

Threads == {1, 2}
Names == {"x", "y"}

VARIABLES
  mu,                  \* ServiceRegistry.mu: 0 when free, else the goroutine holding it
  instanceServiceA,    \* ServiceRegistry.instanceServiceA (Nil until stored)
  factoryServiceA,     \* ServiceRegistry.factoryServiceA (NilFactory until registered)
  instancesServiceB,   \* ServiceRegistry.instancesServiceB: a map from names
  factoriesServiceB,   \* ServiceRegistry.factoriesServiceB: a map from names
  ctxs,                \* per goroutine: the serviceLocationContexts of its call tree
  stack,               \* per goroutine: its call stack
  ext,                 \* per goroutine: its last external Get, what it saw and what it returned
  invoked,             \* per slot: how many times a factory of the slot was called
  built,               \* per slot: the values its factory calls returned with no error, in order
  hist,                \* what external Get calls returned so far
  nCalls, nRegs,       \* external calls started so far
  procs, menu,         \* the application: its goroutines, the factories it registers
  variant              \* which ServiceRegistry of the repository the application uses

vars == <<mu, instanceServiceA, factoryServiceA, instancesServiceB, factoriesServiceB,
          ctxs, stack, ext, invoked, built, hist, nCalls, nRegs, procs, menu, variant>>

registry == <<instanceServiceA, factoryServiceA, instancesServiceB, factoriesServiceB>>

----
\* Slots and their labels.

SlotA == [kind |-> "ServiceA", name |-> ""]

SlotB(n) == [kind |-> "ServiceB", name |-> n]

Slots == {SlotA} \cup {SlotB(n) : n \in Names}

\* The label markVisitedServiceA / markVisitedServiceB append to the dependency graph.
Label(s) == IF s.kind = "ServiceA" THEN "ServiceA" ELSE "ServiceB:" \o s.name

----
\* Values: instances, factories, errors.

\* The nil interface value.
Nil == [n |-> 0, of |-> "", by |-> "nil", from |-> <<>>]

\* The k-th value built for slot s, by factory f, out of the values got that the
\* factory's requests returned (serviceA{serviceB: serviceB}).
NewInstance(s, k, f, got) == [n |-> k, of |-> Label(s), by |-> f.tag, from |-> got]

\* The nil func value.
NilFactory == [tag |-> "nil", deps |-> <<>>, propagate |-> FALSE, result |-> "nil",
               handle |-> "ctx"]

Factory(tag, deps, propagate, result) ==
  [tag |-> tag, deps |-> deps, propagate |-> propagate, result |-> result, handle |-> "ctx"]

NoErr == [type |-> "nil", ServiceType |-> "", ServiceName |-> "", DependencyGraph |-> <<>>]

\* The run-time panic of a failed type assertion; it is no error value a get returns,
\* it is what ext records for a call that the panic ended.
RuntimePanic ==
  [type |-> "panic", ServiceType |-> "", ServiceName |-> "", DependencyGraph |-> <<>>]

\* instance.(ServiceB): holds unless the interface value is nil.
TypeAssertion(v) == v # Nil

\* A get that reports a missing factory as no error at all.
NotRegisteredSilent(s) ==
  [type |-> "nil", ServiceType |-> "", ServiceName |-> "", DependencyGraph |-> <<>>]

\* A not-registered error that leaves the name out.
NotRegisteredErrorNameless(s) ==
  [type |-> "NotRegistered", ServiceType |-> s.kind, ServiceName |-> "",
   DependencyGraph |-> <<>>]

\* errors.New("no factory registered for ServiceA") /
\* fmt.Errorf("no factory registered for ServiceB with name '%s'", serviceName)
NotRegisteredError(s) ==
  [type |-> "NotRegistered", ServiceType |-> s.kind, ServiceName |-> s.name,
   DependencyGraph |-> <<>>]

newCircularDependencyError(serviceType, serviceName, dependencyGraph) ==
  [type |-> "CircularDependency", ServiceType |-> serviceType, ServiceName |-> serviceName,
   DependencyGraph |-> dependencyGraph]

\* strings.Join
RECURSIVE Join(_, _)
Join(elems, sep) ==
  IF elems = <<>> THEN ""
  ELSE IF Len(elems) = 1 THEN elems[1]
  ELSE elems[1] \o sep \o Join(Tail(elems), sep)

\* A message that lists the path with commas.
ErrorWithCommas(e) ==
  "circular dependency detected for " \o e.ServiceType \o " '" \o e.ServiceName \o "': "
    \o Join(e.DependencyGraph, ", ")

\* CircularDependencyError.Error
Error(e) ==
  LET dependencyPath == Join(e.DependencyGraph, " -> ")
  IN "circular dependency detected for " \o e.ServiceType \o " '" \o e.ServiceName
       \o "': " \o dependencyPath

\* err.Error() as the application reads it off a circular-dependency error it is
\* returned; the text of the other errors is not modelled.
Message(err) == IF err.type = "CircularDependency" THEN Error(err) ELSE ""

\* The error value the k-th call of slot s's factory f returns (errors.New in the factory).
FactoryError(s, k, f) ==
  [type |-> "Factory", ServiceType |-> Label(s), ServiceName |-> f.tag,
   DependencyGraph |-> <<k>>]

----
\* The registry's fields, read and written per slot.

\* A get or Register that returns without unlocking.
UnlockForgotten == mu

\* r.mu.Unlock(): the value of mu after it.
Unlock == 0

ReadInstance(s) ==
  IF s.kind = "ServiceA" THEN instanceServiceA
  ELSE IF s.name \in DOMAIN instancesServiceB THEN instancesServiceB[s.name] ELSE Nil

ReadInstanceOk(s) ==
  IF s.kind = "ServiceA" THEN instanceServiceA # Nil
  ELSE s.name \in DOMAIN instancesServiceB

ReadFactory(s) ==
  IF s.kind = "ServiceA" THEN factoryServiceA
  ELSE IF s.name \in DOMAIN factoriesServiceB THEN factoriesServiceB[s.name] ELSE NilFactory

ReadFactoryOk(s) ==
  IF s.kind = "ServiceA" THEN factoryServiceA # NilFactory
  ELSE s.name \in DOMAIN factoriesServiceB

\* m[k] = v on a Go map.
MapSet(m, k, v) == [n \in DOMAIN m \cup {k} |-> IF n = k THEN v ELSE m[n]]

\* A get that returns what the factory built and stores nothing.
StoreInstanceDropped(s, v) == UNCHANGED <<instanceServiceA, instancesServiceB>>

\* A get that stores a copy of what the factory built.
StoreInstanceCopied(s, v) ==
  LET w == [v EXCEPT !.by = "copy"]
  IN /\ instanceServiceA' = IF s.kind = "ServiceA" THEN w ELSE instanceServiceA
     /\ instancesServiceB' = IF s.kind = "ServiceB" THEN MapSet(instancesServiceB, s.name, w)
                             ELSE instancesServiceB

\* A get that stores what the factory built only if the slot holds nothing yet.
StoreInstanceIfAbsent(s, v) ==
  /\ instanceServiceA' = IF s.kind = "ServiceA" /\ instanceServiceA = Nil THEN v
                          ELSE instanceServiceA
  /\ instancesServiceB' = IF s.kind = "ServiceB" /\ s.name \notin DOMAIN instancesServiceB
                           THEN MapSet(instancesServiceB, s.name, v)
                           ELSE instancesServiceB

StoreInstance(s, v) ==
  /\ instanceServiceA' = IF s.kind = "ServiceA" THEN v ELSE instanceServiceA
  /\ instancesServiceB' = IF s.kind = "ServiceB" THEN MapSet(instancesServiceB, s.name, v)
                          ELSE instancesServiceB

\* A Register that keeps the factory a slot already has.
\* A Register of a named factory that replaces the factories of all the names.
StoreFactoryForAllNames(s, f) ==
  /\ factoryServiceA' = IF s.kind = "ServiceA" THEN f ELSE factoryServiceA
  /\ factoriesServiceB' = IF s.kind = "ServiceB"
                           THEN [n \in DOMAIN factoriesServiceB \cup {s.name} |-> f]
                           ELSE factoriesServiceB

StoreFactoryFirstWins(s, f) ==
  /\ factoryServiceA' = IF s.kind = "ServiceA" /\ factoryServiceA = NilFactory THEN f
                         ELSE factoryServiceA
  /\ factoriesServiceB' = IF s.kind = "ServiceB" /\ s.name \notin DOMAIN factoriesServiceB
                           THEN MapSet(factoriesServiceB, s.name, f)
                           ELSE factoriesServiceB

StoreFactory(s, f) ==
  /\ factoryServiceA' = IF s.kind = "ServiceA" THEN f ELSE factoryServiceA
  /\ factoriesServiceB' = IF s.kind = "ServiceB" THEN MapSet(factoriesServiceB, s.name, f)
                          ELSE factoriesServiceB

----
\* serviceLocationContext.

\* A context handed out with ServiceA already marked.
usedServiceLocationContext ==
  [visitedServiceA |-> TRUE, visitedServiceB |-> <<>>, dependencyGraph |-> <<"ServiceA">>,
   visitLock |-> 0]

newServiceLocationContext ==
  [visitedServiceA |-> FALSE, visitedServiceB |-> <<>>, dependencyGraph |-> <<>>,
   visitLock |-> 0]

\* A context that keeps one visited flag for all the names of a kind.
isVisitedAnyName(c, s) ==
  IF s.kind = "ServiceA" THEN c.visitedServiceA
  ELSE \E n \in DOMAIN c.visitedServiceB : c.visitedServiceB[n]

\* A context that never finds a slot visited.
isVisitedNever(c, s) == FALSE

isVisited(c, s) ==
  IF s.kind = "ServiceA" THEN c.visitedServiceA
  ELSE s.name \in DOMAIN c.visitedServiceB /\ c.visitedServiceB[s.name]

\* A markVisited that appends to the path and leaves the visited flag alone.
setVisitedForgotten(c, s) == c

\* The first statement of markVisitedServiceA/B, under visitLock.
setVisited(c, s) ==
  IF s.kind = "ServiceA" THEN [c EXCEPT !.visitedServiceA = TRUE]
  ELSE [c EXCEPT !.visitedServiceB = MapSet(@, s.name, TRUE)]

\* A markVisited that puts the slot in front of the path.
appendVisitedInFront(c, s) == [c EXCEPT !.dependencyGraph = <<Label(s)>> \o @]

\* A markVisited that sets the flag and leaves the path alone.
appendVisitedNowhere(c, s) == c

\* The second statement of markVisitedServiceA/B.
appendVisited(c, s) == [c EXCEPT !.dependencyGraph = Append(@, Label(s))]

----
\* Frames.

NoRet == [has |-> FALSE, instance |-> Nil, err |-> NoErr]

GetFrame(s, cx, root) ==
  [op |-> "get", slot |-> s, pc |-> "lock", instance |-> Nil, instanceOk |-> FALSE,
   factory |-> NilFactory, factoryOk |-> FALSE, cx |-> cx, root |-> root, dep |-> 1,
   ret |-> NoRet, got |-> <<>>, k |-> 0, own |-> 0, kid |-> 0]

RegisterFrame(s, f) ==
  [op |-> "register", slot |-> s, pc |-> "store", instance |-> Nil, instanceOk |-> FALSE,
   factory |-> f, factoryOk |-> TRUE, cx |-> 0, root |-> FALSE, dep |-> 1, ret |-> NoRet,
   got |-> <<>>, k |-> 0, own |-> 0, kid |-> 0]

Top(t) == stack[t][Len(stack[t])]

At(t, op, pc) == stack[t] # <<>> /\ Top(t).op = op /\ Top(t).pc = pc

SetTop(t, fr) == [stack EXCEPT ![t] = [@ EXCEPT ![Len(@)] = fr]]

\* The goroutine in whose call tree the context of t's top frame was made: t itself,
\* or the goroutine whose factory started t with the context it was given.
Home(t) == IF Top(t).own = 0 THEN t ELSE Top(t).own

\* The context a frame works with.
Ctx(t) == ctxs[Home(t)][Top(t).cx]

SetCtx(t, c) == [ctxs[Home(t)] EXCEPT ![Top(t).cx] = c]

NoCalls == [s \in Slots |-> 0]

\* The instances the registry holds, as an external call finds them.
Snapshot ==
  [ok |-> {s \in Slots : ReadInstanceOk(s)},
   instance |-> [s \in Slots |-> ReadInstance(s)]]

NoExt ==
  [slot |-> SlotA, active |-> FALSE, done |-> FALSE, instance |-> Nil, err |-> NoErr,
   pre |-> [ok |-> {}, instance |-> [s \in Slots |-> Nil]],
   inv |-> NoCalls, retry |-> FALSE, asked |-> {}, made |-> {}, msg |-> ""]

\* The top frame of t returns (inst, err); cs is the contexts of Home(t) as the frame
\* leaves them.  The caller is the factory that asked, or, for the outermost frame, the
\* application (or the factory that started the goroutine, which reads ext[t]).
Return(t, inst, err, cs) ==
  LET st == stack[t]
      n == Len(st)
  IN IF n = 1
     THEN /\ stack' = [stack EXCEPT ![t] = <<>>]
          /\ ctxs' = [ctxs EXCEPT ![Home(t)] = cs]
          /\ ext' = [ext EXCEPT ![t] = [@ EXCEPT !.done = TRUE, !.active = FALSE,
                                                 !.instance = inst, !.err = err,
                                                 !.msg = Message(err)]]
          /\ hist' = IF st[1].own # 0 THEN hist
                     ELSE IF err = NoErr
                     THEN [hist EXCEPT !.returned[st[1].slot] = @ \cup {inst}]
                     ELSE [hist EXCEPT !.failed = @ \cup {st[1].slot}]
     ELSE /\ stack' = [stack EXCEPT ![t] =
                 Append(SubSeq(st, 1, n - 2),
                        [st[n - 1] EXCEPT !.ret = [has |-> TRUE, instance |-> inst,
                                                   err |-> err],
                                          !.got = Append(@, inst)])]
          /\ ctxs' = [ctxs EXCEPT ![Home(t)] =
                          IF st[n].root THEN SubSeq(cs, 1, Len(cs) - 1) ELSE cs]
          /\ UNCHANGED <<ext, hist>>

----
\* Operations.

\* RegisterServiceA / RegisterServiceB: r.mu.Lock(); defer r.mu.Unlock()
RegisterLock(t, s, f) ==
  /\ t \in procs /\ f \in menu
  /\ variant = "prototype" => s.kind = "ServiceB"
  /\ stack[t] = <<>>
  /\ nRegs < MaxRegs
  /\ mu = 0
  /\ mu' = t
  /\ stack' = [stack EXCEPT ![t] = <<RegisterFrame(s, f)>>]
  /\ ctxs' = [ctxs EXCEPT ![t] = <<>>]
  /\ ext' = [ext EXCEPT ![t] = NoExt]
  /\ nRegs' = nRegs + 1
  /\ UNCHANGED <<registry, invoked, built, hist, nCalls, procs, menu, variant>>

\* r.factoryServiceA = factory / r.factoriesServiceB[serviceName] = factory; the deferred Unlock
RegisterStore(t) ==
  /\ At(t, "register", "store")
  /\ StoreFactory(Top(t).slot, Top(t).factory)
  /\ mu' = Unlock
  /\ stack' = [stack EXCEPT ![t] = <<>>]
  /\ UNCHANGED <<instanceServiceA, instancesServiceB, ctxs, ext, invoked, built, hist,
                 nCalls, nRegs, procs, menu, variant>>

\* GetServiceA / GetServiceB: r.getServiceX(newServiceLocationContext(r, 0))
StartGet(t, s) ==
  /\ t \in procs
  /\ variant = "prototype" => s.kind = "ServiceB"
  /\ stack[t] = <<>>
  /\ nCalls < MaxCalls
  /\ stack' = [stack EXCEPT ![t] = <<GetFrame(s, 1, TRUE)>>]
  /\ ctxs' = [ctxs EXCEPT ![t] = <<newServiceLocationContext>>]
  /\ ext' = [ext EXCEPT ![t] = [NoExt EXCEPT !.slot = s, !.active = TRUE, !.pre = Snapshot,
                                              !.retry = s \in hist.failed,
                                              !.asked = {s}]]
  /\ nCalls' = nCalls + 1
  /\ UNCHANGED <<mu, registry, invoked, built, hist, nRegs, procs, menu, variant>>

\* getServiceX: r.mu.Lock()
GetLock(t) ==
  /\ At(t, "get", "lock")
  /\ mu = 0
  /\ mu' = t
  /\ stack' = SetTop(t, [Top(t) EXCEPT !.pc = "read"])
  /\ UNCHANGED <<registry, ctxs, ext, invoked, built, hist, nCalls, nRegs, procs, menu, variant>>

\* getServiceX: the reads of the instance and the factory; r.mu.Unlock()
GetRead(t) ==
  /\ At(t, "get", "read")
  /\ mu' = Unlock
  /\ stack' = SetTop(t, [Top(t) EXCEPT !.pc = "check",
                                       !.instance = ReadInstance(Top(t).slot),
                                       !.instanceOk = ReadInstanceOk(Top(t).slot),
                                       !.factory = ReadFactory(Top(t).slot),
                                       !.factoryOk = ReadFactoryOk(Top(t).slot)])
  /\ UNCHANGED <<registry, ctxs, ext, invoked, built, hist, nCalls, nRegs, procs, menu, variant>>

\* A get that goes on to the factory whatever it read.
FastPathNever(fr) == FALSE

\* A get that looks at the visited mark before it returns the instance it read.
FastPathUnlessVisited(fr) ==
  /\ fr.instanceOk
  /\ \A t \in Threads :
       (stack[t] # <<>> /\ Top(t) = fr) => ~isVisited(Ctx(t), fr.slot)

\* getServiceX: if instanceOk { return instance, nil }
FastPath(fr) == fr.instanceOk

\* A get that wraps the factory's error.
WrapError(err) == [err EXCEPT !.type = "Wrapped"]

\* getServiceX: if err != nil { return nil, err }: the error handed to the caller
PassError(err) == err

\* getServiceX: if instanceOk { return }; if ctx.isVisitedX() { return the cycle error }
GetCheck(t) ==
  /\ At(t, "get", "check")
  /\ LET fr == Top(t)
     IN IF FastPath(fr)
        THEN Return(t, fr.instance, NoErr, ctxs[Home(t)])
        ELSE /\ Ctx(t).visitLock = 0
             /\ IF isVisited(Ctx(t), fr.slot)
                THEN Return(t, Nil,
                            newCircularDependencyError(fr.slot.kind, fr.slot.name,
                                                       Ctx(t).dependencyGraph),
                            ctxs[Home(t)])
                ELSE /\ stack' = SetTop(t, [fr EXCEPT !.pc = "mark"])
                     /\ UNCHANGED <<ctxs, ext, hist>>
  /\ UNCHANGED <<mu, registry, invoked, built, nCalls, nRegs, procs, menu, variant>>

\* markVisitedX: c.visitLock.Lock(); c.visitedX = true
MarkLock(t) ==
  /\ At(t, "get", "mark")
  /\ Ctx(t).visitLock = 0
  /\ ctxs' = [ctxs EXCEPT ![Home(t)] = SetCtx(t, [setVisited(Ctx(t), Top(t).slot)
                                                   EXCEPT !.visitLock = t])]
  /\ stack' = SetTop(t, [Top(t) EXCEPT !.pc = "append"])
  /\ UNCHANGED <<mu, registry, ext, invoked, built, hist, nCalls, nRegs, procs, menu, variant>>

\* markVisitedX: the append and the deferred Unlock; then getServiceX:
\* if !factoryOk { return the error }; the call of the factory
MarkAppend(t) ==
  /\ At(t, "get", "append")
  /\ LET fr == Top(t)
         cs == SetCtx(t, [appendVisited(Ctx(t), fr.slot) EXCEPT !.visitLock = 0])
     IN IF ~fr.factoryOk
        THEN /\ Return(t, Nil, NotRegisteredError(fr.slot), cs)
             /\ UNCHANGED invoked
        ELSE /\ stack' = SetTop(t, [fr EXCEPT !.pc = "factory", !.k = invoked[fr.slot] + 1])
             /\ ctxs' = [ctxs EXCEPT ![Home(t)] = cs]
             /\ invoked' = [invoked EXCEPT ![fr.slot] = @ + 1]
             /\ ext' = [ext EXCEPT ![t].inv[fr.slot] = @ + 1]
             /\ UNCHANGED hist
  /\ UNCHANGED <<mu, registry, built, nCalls, nRegs, procs, menu, variant>>

\* A get that looks the factory up again when it comes to call it.
InvokedAsRegisteredNow(fr) == ReadFactory(fr.slot)

\* getServiceX: factory(ctx): the factory called is the local variable set by the read
Invoked(fr) == fr.factory

\* A factory that starts a goroutine for its first request, giving it the context it was
\* given itself, and goes on with its other requests meanwhile.
FactoryGo(t, u) ==
  /\ At(t, "get", "factory")
  /\ Top(t).factory.handle = "go" /\ Top(t).dep = 1
  /\ u \in Threads \ procs /\ stack[u] = <<>>
  /\ LET fr == Top(t)
         d == fr.factory.deps[1]
     IN /\ stack' = [SetTop(t, [fr EXCEPT !.dep = 2, !.kid = u]) EXCEPT
                        ![u] = <<[GetFrame(d, fr.cx, FALSE) EXCEPT !.own = Home(t)]>>]
        /\ ext' = [ext EXCEPT ![u] = [NoExt EXCEPT !.slot = d, !.active = TRUE,
                                                   !.pre = Snapshot, !.asked = {d}],
                              ![t].asked = @ \cup {d}]
  /\ UNCHANGED <<mu, registry, ctxs, invoked, built, hist, nCalls, nRegs, procs, menu, variant>>

\* The factory runs: it returns the error it was handed, or asks its handle for its
\* next dependency, or comes to its end (after the goroutine it started, if any, has
\* come to its end); then getServiceX: if err != nil { return nil, err }
FactoryStep(t) ==
  /\ At(t, "get", "factory")
  /\ LET fr == Top(t)
         f == Invoked(fr)
         got == IF fr.kid = 0 THEN fr.got ELSE Append(fr.got, ext[fr.kid].instance)
         v == IF f.result = "nil" THEN Nil ELSE NewInstance(fr.slot, fr.k, f, got)
     IN IF fr.ret.has /\ fr.ret.err # NoErr /\ f.propagate
        THEN /\ fr.kid # 0 => stack[fr.kid] = <<>>
             /\ Return(t, Nil, PassError(fr.ret.err), ctxs[Home(t)])
             /\ UNCHANGED built
        ELSE IF fr.dep <= Len(f.deps)
        THEN /\ f.handle = "registry" => Len(stack[t]) < MaxDepth
             /\ f.handle = "go" => fr.dep > 1
             /\ stack' = [stack EXCEPT ![t] =
                    Append(SetTop(t, [fr EXCEPT !.dep = @ + 1, !.ret = NoRet])[t],
                           IF f.handle = "registry"
                           THEN GetFrame(f.deps[fr.dep], Len(ctxs[t]) + 1, TRUE)
                           ELSE [GetFrame(f.deps[fr.dep], fr.cx, FALSE)
                                   EXCEPT !.own = fr.own])]
             /\ ctxs' = IF f.handle = "registry"
                        THEN [ctxs EXCEPT ![t] = Append(@, newServiceLocationContext)]
                        ELSE ctxs
             /\ ext' = [ext EXCEPT ![t].asked = @ \cup {f.deps[fr.dep]}]
             /\ UNCHANGED <<hist, built>>
        ELSE /\ fr.kid # 0 => stack[fr.kid] = <<>>
             /\ IF fr.kid # 0 /\ ext[fr.kid].err # NoErr /\ f.propagate
                THEN /\ Return(t, Nil, PassError(ext[fr.kid].err), ctxs[Home(t)])
                     /\ UNCHANGED built
                ELSE IF f.result = "err"
                THEN /\ Return(t, Nil, PassError(FactoryError(fr.slot, fr.k, f)),
                               ctxs[Home(t)])
                     /\ UNCHANGED built
                ELSE /\ stack' = SetTop(t, [fr EXCEPT !.pc = "commit", !.ret = NoRet,
                                                      !.instance = v])
                     /\ built' = [built EXCEPT ![fr.slot] = Append(@, v)]
                     /\ ext' = [ext EXCEPT ![t].made = @ \cup {fr.slot}]
                     /\ UNCHANGED <<ctxs, hist>>
  /\ UNCHANGED <<mu, registry, invoked, nCalls, nRegs, procs, menu, variant>>

\* getServiceX: the second r.mu.Lock()
CommitLock(t) ==
  /\ At(t, "get", "commit")
  /\ mu = 0
  /\ mu' = t
  /\ stack' = SetTop(t, [Top(t) EXCEPT !.pc = "store"])
  /\ UNCHANGED <<registry, ctxs, ext, invoked, built, hist, nCalls, nRegs, procs, menu, variant>>

\* getServiceX: the store of the instance; r.mu.Unlock(); return instance, nil
\* In the prototype the stored value is instance.(ServiceB): when the assertion fails
\* the goroutine panics with r.mu locked (the Lock before it has no deferred Unlock)
\* and all its calls are left.
CommitStore(t) ==
  /\ At(t, "get", "store")
  /\ IF variant = "prototype" /\ ~TypeAssertion(Top(t).instance)
     THEN /\ UNCHANGED <<mu, instanceServiceA, instancesServiceB, ctxs, hist>>
          /\ stack' = [stack EXCEPT ![t] = <<>>]
          /\ ext' = [ext EXCEPT ![t] = [@ EXCEPT !.done = TRUE, !.active = FALSE,
                                                 !.instance = Nil, !.err = RuntimePanic]]
     ELSE /\ StoreInstance(Top(t).slot, Top(t).instance)
          /\ mu' = Unlock
          /\ Return(t, Top(t).instance, NoErr, ctxs[Home(t)])
  /\ UNCHANGED <<factoryServiceA, factoriesServiceB, invoked, built, nCalls, nRegs,
                 procs, menu, variant>>

----
\* The factories an application registers.

\* Factories that ask for nothing: one builds a value, one returns (nil, nil), one fails.
F1 == Factory("f1", <<>>, TRUE, "ok")

FNil == Factory("fnil", <<>>, TRUE, "nil")

FErr == Factory("ferr", <<>>, TRUE, "err")

\* A factory that asks for slot d and returns the error it gets, as the tests' factories do.
Chain(d) == Factory("g", <<d>>, TRUE, "ok")

\* A factory that asks for B:x, then for B:y, whatever the first request returned.
Both == Factory("h", <<SlotB("x"), SlotB("y")>>, FALSE, "ok")

SeqMenu == {F1, FNil, FErr, Chain(SlotA), Chain(SlotB("x")), Both}

ConcMenu == {F1, FNil}

\* Two goroutines with factories that ask for each other.
CycMenu == {F1, Chain(SlotA), Chain(SlotB("x"))}

\* The factory f, asking the registry it has captured instead of the handle it is given:
\* every request is a GetServiceX of the registry, with a context of its own.
ViaRegistry(f) == [f EXCEPT !.handle = "registry"]

\* One goroutine with factories that ask the registry itself.
HandleMenu == {F1, FErr, ViaRegistry(Chain(SlotA)), ViaRegistry(Chain(SlotB("x")))}

\* A factory that asks for B:x, and then for B:x again, whatever the first request
\* returned.
Again == Factory("r", <<SlotB("x"), SlotB("x")>>, FALSE, "ok")

\* One goroutine with a factory that asks for a slot twice.
RevisitMenu == {F1, FErr, Again}

\* A factory whose two requests for ServiceB "x" run side by side, one of them in a
\* goroutine of its own, both through the context the factory was given.
Siblings == [Factory("p", <<SlotB("x"), SlotB("x")>>, FALSE, "ok") EXCEPT !.handle = "go"]

GoMenu == {F1, Siblings}

\* A factory that needs ServiceA for two of its parts and asks for it twice.
Twice == Factory("d", <<SlotA, SlotA>>, TRUE, "ok")

DiamondMenu == {F1, FNil, Twice, Chain(SlotA)}

\* A factory that asks for ServiceA and then for d, and gives up at the first error.
Pair(d) == Factory("q", <<SlotA, d>>, TRUE, "ok")

PartialMenu == {F1, FNil, FErr, Pair(SlotB("x")), Pair(SlotB("y"))}

\* Factories for the named slots of the prototype.
ProtoMenu == {F1, FNil, Chain(SlotB("x"))}

AllFactories ==
  SeqMenu \cup ConcMenu \cup CycMenu \cup HandleMenu \cup RevisitMenu \cup GoMenu
  \cup DiamondMenu \cup PartialMenu \cup ProtoMenu

InitFields ==
  /\ mu = 0
  /\ instanceServiceA = Nil
  /\ factoryServiceA = NilFactory
  /\ instancesServiceB = <<>>
  /\ factoriesServiceB = <<>>
  /\ ctxs = [t \in Threads |-> <<>>]
  /\ stack = [t \in Threads |-> <<>>]
  /\ ext = [t \in Threads |-> NoExt]
  /\ invoked = NoCalls
  /\ built = [s \in Slots |-> <<>>]
  /\ hist = [returned |-> [s \in Slots |-> {}], failed |-> {}]
  /\ nCalls = 0
  /\ nRegs = 0

\* NewServiceRegistry of the generated locator (test/service_locator_gen.go).
InitState == InitFields /\ variant = "generated"

\* NewServiceRegistry, and an application of two goroutines.
Init == InitState /\ procs = Threads /\ menu = ConcMenu

\* NewServiceRegistry, and an application of one goroutine.
InitSeq == InitState /\ procs = {1} /\ menu = SeqMenu

\* NewServiceRegistry, and two goroutines registering factories that form cycles.
InitCyc == InitState /\ procs = Threads /\ menu = CycMenu

\* NewServiceRegistry, and one goroutine registering factories that ask the registry.
InitHandle == InitState /\ procs = {1} /\ menu = HandleMenu

\* NewServiceRegistry, and one goroutine registering a factory that asks twice.
InitRevisit == InitState /\ procs = {1} /\ menu = RevisitMenu

Next ==
  \E t \in Threads :
    \/ \E s \in Slots : \E f \in AllFactories : RegisterLock(t, s, f)
    \/ RegisterStore(t)
    \/ \E s \in Slots : StartGet(t, s)
    \/ GetLock(t)
    \/ GetRead(t)
    \/ GetCheck(t)
    \/ MarkLock(t)
    \/ MarkAppend(t)
    \/ FactoryStep(t)
    \/ CommitLock(t)
    \/ CommitStore(t)

Spec == Init /\ [][Next]_vars

SeqSpec == InitSeq /\ [][Next]_vars

CycSpec == InitCyc /\ [][Next]_vars

\* What goroutine t does once it is in a call: the Go scheduler runs a goroutine that
\* can run.
Step(t) ==
  \/ RegisterStore(t) \/ GetLock(t) \/ GetRead(t) \/ GetCheck(t) \/ MarkLock(t)
  \/ MarkAppend(t) \/ FactoryStep(t) \/ CommitLock(t) \/ CommitStore(t)

FairSeqSpec == SeqSpec /\ \A t \in Threads : WF_vars(Step(t))

HandleSpec == InitHandle /\ [][Next]_vars

RevisitSpec == InitRevisit /\ [][Next]_vars

FairHandleSpec == HandleSpec /\ \A t \in Threads : WF_vars(Step(t))

\* NewServiceRegistry, and one goroutine registering factories that share a dependency.
InitDiamond == InitState /\ procs = {1} /\ menu = DiamondMenu

DiamondSpec == InitDiamond /\ [][Next]_vars

\* NewServiceRegistry, and one goroutine registering factories with two dependencies.
InitPartial == InitState /\ procs = {1} /\ menu = PartialMenu

PartialSpec == InitPartial /\ [][Next]_vars

\* NewServiceRegistry of the prototype (main.go:704-711), and one goroutine using its
\* ServiceB slots; the prototype's ServiceA slots are named ones too and are left out.
InitProto == InitFields /\ variant = "prototype" /\ procs = {1} /\ menu = ProtoMenu

ProtoSpec == InitProto /\ [][Next]_vars

FairCycSpec == CycSpec /\ \A t \in Threads : WF_vars(Step(t))

\* NewServiceRegistry, and one goroutine registering a factory that starts a second one.
InitGo == InitState /\ procs = {1} /\ menu = GoMenu

GoNext == Next \/ \E t \in Threads : \E u \in Threads : FactoryGo(t, u)

GoSpec == InitGo /\ [][GoNext]_vars

----
\* Properties.

Range(q) == {q[i] : i \in DOMAIN q}

\* The value a factory described by f hands back for slot s: nil, or a value it built
\* for that slot.
BuiltBy(v, s, f) ==
  IF f.result = "nil" THEN v = Nil
  ELSE v # Nil /\ v.by = f.tag /\ v.of = Label(s)

\* C1: memoization. In a run of sequential calls, for every slot, the factory calls of
\* the slot that returned without an error number at most one, and all successful
\* external gets of the slot returned one and the same instance.
C1_Memoization ==
  \A s \in Slots : Len(built[s]) <= 1 /\ Cardinality(hist.returned[s]) <= 1

\* C1, for all but the singleton slot whose factory has returned (nil, nil).
C1_MemoizationButNilSingleton ==
  \A s \in Slots :
    (s.kind = "ServiceA" /\ Nil \in Range(built[s]))
    \/ (Len(built[s]) <= 1 /\ Cardinality(hist.returned[s]) <= 1)

C1_Witness ==
  \E t \in Threads :
    /\ ext[t].done /\ ext[t].err = NoErr /\ ext[t].instance # Nil
    /\ ext[t].slot \in ext[t].pre.ok
    /\ ext[t].instance = ext[t].pre.instance[ext[t].slot]

\* C2: cycle detection. When the factory of slot a asks its handle for slot b and b's
\* asks for a, both return the error they get and neither slot is resolved, an
\* external get of a returns the CircularDependencyError that names a (kind, and name,
\* empty for the singleton) with the path [a, b], and stores nothing for a or b.
C2_CycleDetection ==
  \A t \in Threads : \A a \in Slots : \A b \in Slots \ {a} :
    ( /\ ext[t].done /\ ext[t].slot = a
      /\ ext[t].pre.ok \cap {a, b} = {}
      /\ ReadFactoryOk(a) /\ ReadFactory(a).deps = <<b>> /\ ReadFactory(a).propagate
      /\ ReadFactoryOk(b) /\ ReadFactory(b).deps = <<a>> /\ ReadFactory(b).propagate )
    => /\ ext[t].err = [type |-> "CircularDependency", ServiceType |-> a.kind,
                        ServiceName |-> a.name,
                        DependencyGraph |-> <<Label(a), Label(b)>>]
       /\ a = SlotA /\ b = SlotB("x")
            => /\ ext[t].err.ServiceType = "ServiceA" /\ ext[t].err.ServiceName = ""
               /\ ext[t].err.DependencyGraph = <<"ServiceA", "ServiceB:x">>
       /\ ext[t].instance = Nil
       /\ ~ReadInstanceOk(a) /\ ~ReadInstanceOk(b)

C2_Witness ==
  \E t \in Threads :
    /\ ext[t].done /\ ext[t].slot = SlotA /\ ext[t].pre.ok = {}
    /\ ReadFactory(SlotA) = Chain(SlotB("x")) /\ ReadFactory(SlotB("x")) = Chain(SlotA)
    /\ ext[t].err.type = "CircularDependency"

\* C3: termination. With factories that ask only the handle they are given, every
\* external get returns, and within one external call no slot's factory is called twice.
C3_Termination ==
  /\ [](\A t \in Threads : \A s \in Slots : ext[t].inv[s] <= 1)
  /\ \A t \in Threads : ext[t].active ~> ext[t].done

C3_Witness ==
  \E t \in Threads :
    /\ ext[t].done
    /\ Cardinality({s \in Slots : ext[t].inv[s] = 1}) >= 2
    /\ ext[t].err.type = "CircularDependency"

\* C4: the registry's mutex is never held across a factory call. A goroutine holds mu
\* only while its innermost frame is between the Lock and the Unlock of the read or of
\* the write (of the instance, or of the factory in Register); a frame whose factory is
\* running, and a goroutine that has returned, do not hold it.
C4_NoLockAcrossFactory ==
  \A t \in Threads :
    /\ mu = t => stack[t] # <<>> /\ Top(t).pc \in {"read", "store"}
    /\ stack[t] # <<>> /\ Top(t).pc \in {"check", "mark", "append", "factory", "commit"}
         => mu # t

C4_Witness ==
  \E t \in Threads : \E u \in Threads \ {t} :
    At(t, "get", "factory") /\ mu = u /\ At(u, "get", "store")

\* C5: instance permanence. Under any interleaving of get and Register calls, a slot
\* that holds an instance keeps holding that very instance.
C5_InstancePermanence ==
  [][\A s \in Slots :
       ReadInstanceOk(s) => ReadInstanceOk(s)' /\ ReadInstance(s)' = ReadInstance(s)]_vars

\* C5 as amended: a stored instance is never changed by Register, nor by a get that found
\* it when it read the registry; it is replaced (or, for the singleton, removed by a nil
\* value) only by the store of a get that had read the slot as unresolved: a concurrent
\* first access, the last writer winning.
C5_PermanenceButConcurrentFirstAccess ==
  [][\A s \in Slots :
       (ReadInstanceOk(s) /\ ~(ReadInstanceOk(s)' /\ ReadInstance(s)' = ReadInstance(s)))
       => \E t \in Threads :
            /\ At(t, "get", "store") /\ Top(t).slot = s /\ ~Top(t).instanceOk
            /\ stack'[t] # stack[t]]_vars

C5_Witness ==
  \E t \in Threads :
    /\ At(t, "get", "store")
    /\ ReadInstanceOk(Top(t).slot)
    /\ Top(t).instance # ReadInstance(Top(t).slot)

\* C6: concurrent first access. When both goroutines have made a first get of the same
\* unresolved slot, each calling its factory, and the factory succeeds, then once both
\* have returned at least one call has succeeded and the registry holds an instance for
\* the slot, one that a caller was handed; a get that finds the slot holding an instance
\* returns an instance built for the slot and no error.
C6_ConcurrentFirstAccess ==
  \A s \in Slots :
    /\ ( /\ \A t \in Threads :
              ext[t].done /\ ext[t].slot = s /\ s \notin ext[t].pre.ok /\ ext[t].inv[s] = 1
         /\ ReadFactory(s).result # "err" )
       => /\ \E t \in Threads : ext[t].err = NoErr
          /\ ReadInstanceOk(s)
          /\ \E t \in Threads : ext[t].instance = ReadInstance(s)
    /\ \A t \in Threads :
         (ext[t].done /\ ext[t].slot = s /\ s \in ext[t].pre.ok)
         => ext[t].err = NoErr /\ ext[t].instance \in Range(built[s])

\* C6, for all but the singleton slot whose factory has returned (nil, nil).
C6_ButNilSingleton ==
  \A s \in Slots :
    /\ ( /\ \A t \in Threads :
              ext[t].done /\ ext[t].slot = s /\ s \notin ext[t].pre.ok /\ ext[t].inv[s] = 1
         /\ ReadFactory(s).result # "err"
         /\ ~(s.kind = "ServiceA" /\ Nil \in Range(built[s])) )
       => /\ \E t \in Threads : ext[t].err = NoErr
          /\ ReadInstanceOk(s)
          /\ \E t \in Threads : ext[t].instance = ReadInstance(s)
    /\ \A t \in Threads :
         (ext[t].done /\ ext[t].slot = s /\ s \in ext[t].pre.ok)
         => ext[t].err = NoErr /\ ext[t].instance \in Range(built[s])

C6_Witness ==
  \E s \in Slots :
    /\ \A t \in Threads :
         ext[t].done /\ ext[t].slot = s /\ s \notin ext[t].pre.ok /\ ext[t].inv[s] = 1
    /\ ext[1].instance # ext[2].instance
    /\ ReadInstanceOk(s)

\* C7: unregistered slot. A get of a slot that has no factory and no instance, issued
\* from outside or by a factory through its handle, returns the not-registered error
\* naming the slot's kind and, for a named slot, its name, and returns no instance.
C7_Unregistered ==
  \A t \in Threads :
    LET NotRegistered(s) == [type |-> "NotRegistered", ServiceType |-> s.kind,
                             ServiceName |-> s.name, DependencyGraph |-> <<>>]
    IN /\ ( /\ ext[t].done /\ ext[t].slot \notin ext[t].pre.ok
            /\ ~ReadFactoryOk(ext[t].slot) )
          => ext[t].err = NotRegistered(ext[t].slot) /\ ext[t].instance = Nil
       /\ \A d \in Slots :
            ( /\ At(t, "get", "factory") /\ Top(t).ret.has /\ Top(t).dep > 1
              /\ Top(t).factory.deps[Top(t).dep - 1] = d
              /\ ~ReadFactoryOk(d) /\ ~ReadInstanceOk(d) )
            => Top(t).ret.err = NotRegistered(d) /\ Top(t).ret.instance = Nil

\* C7, as the code has it: an external get of a slot that has no factory and no instance
\* returns the not-registered error naming the slot's kind and name, returns no
\* instance and leaves the registry as it was, at every step; the slot is marked
\* visited in the call's context all the same, so that a get of it issued by a factory
\* returns the not-registered error or, if the slot was requested before in that
\* context, the circular-dependency error of that slot.
C7_FirstRequest ==
  /\ [](\A t \in Threads :
          LET s == ext[t].slot
          IN (ext[t].done /\ s \notin ext[t].pre.ok /\ ~ReadFactoryOk(s))
             => /\ ext[t].err = [type |-> "NotRegistered", ServiceType |-> s.kind,
                                 ServiceName |-> s.name, DependencyGraph |-> <<>>]
                /\ ext[t].instance = Nil
                /\ Snapshot = ext[t].pre)
  /\ [](\A t \in Threads : \A d \in Slots :
          ( /\ At(t, "get", "factory") /\ Top(t).ret.has /\ Top(t).dep > 1
            /\ Top(t).factory.deps[Top(t).dep - 1] = d
            /\ ~ReadFactoryOk(d) /\ ~ReadInstanceOk(d) )
          => /\ Top(t).ret.instance = Nil
             /\ isVisited(Ctx(t), d)
             /\ \/ Top(t).ret.err = [type |-> "NotRegistered", ServiceType |-> d.kind,
                                     ServiceName |-> d.name, DependencyGraph |-> <<>>]
                \/ /\ Top(t).ret.err.type = "CircularDependency"
                   /\ Top(t).ret.err.ServiceType = d.kind
                   /\ Top(t).ret.err.ServiceName = d.name)
  /\ [][\A t \in Threads :
          ( /\ stack[t] # <<>> /\ Top(t).op = "get"
            /\ ~ReadInstanceOk(Top(t).slot) /\ ~ReadFactoryOk(Top(t).slot) )
          => UNCHANGED registry]_vars

C7_Witness ==
  \E t \in Threads :
    /\ ext[t].done /\ ext[t].slot = SlotB("y") /\ ~ReadFactoryOk(SlotB("y"))
    /\ ext[t].err.type = "NotRegistered" /\ ext[t].err.ServiceName = "y"
    /\ ReadFactoryOk(SlotB("x"))

\* C8: factory failure passthrough. An external get of an unresolved slot whose factory
\* returns an error returns that very error value and no instance, and the slot stays
\* without an instance; so does a get of a slot whose factory hands on the error of the
\* one slot it asks for.
C8_FactoryFailure ==
  \A t \in Threads :
    LET s == ext[t].slot
        f == ReadFactory(s)
        Failure(d) == [type |-> "Factory", ServiceType |-> Label(d),
                       ServiceName |-> ReadFactory(d).tag,
                       DependencyGraph |-> <<invoked[d]>>]
    IN /\ ( /\ ext[t].done /\ s \notin ext[t].pre.ok /\ ReadFactoryOk(s)
            /\ f.deps = <<>> /\ f.result = "err" )
          => ext[t].err = Failure(s) /\ ext[t].instance = Nil /\ ~ReadInstanceOk(s)
       /\ \A d \in Slots \ {s} :
            ( /\ ext[t].done /\ ext[t].pre.ok \cap {s, d} = {} /\ ReadFactoryOk(s)
              /\ f.deps = <<d>> /\ f.propagate
              /\ ReadFactoryOk(d) /\ ReadFactory(d).deps = <<>>
              /\ ReadFactory(d).result = "err" )
            => /\ ext[t].err = Failure(d) /\ ext[t].instance = Nil
               /\ ~ReadInstanceOk(s) /\ ~ReadInstanceOk(d)

C8_Witness ==
  \E t \in Threads :
    /\ ext[t].done /\ ext[t].slot = SlotA /\ ext[t].pre.ok = {}
    /\ ReadFactory(SlotA) = Chain(SlotB("x")) /\ ReadFactory(SlotB("x")) = FErr
    /\ ext[t].err.type = "Factory"

\* C9: no poisoning. An external get of a slot after an external get of the same slot
\* has failed, the slot being unresolved and a factory registered, calls that factory
\* once and, if the call succeeds, returns what the factory built and leaves it
\* memoized in the registry.
C9_NoPoisoning ==
  \A t \in Threads :
    LET s == ext[t].slot
    IN (ext[t].done /\ ext[t].retry /\ s \notin ext[t].pre.ok /\ ReadFactoryOk(s))
       => /\ ext[t].inv[s] = 1
          /\ ext[t].err = NoErr
               => /\ BuiltBy(ext[t].instance, s, ReadFactory(s))
                  /\ ReadInstanceOk(s) /\ ReadInstance(s) = ext[t].instance

\* C9, for all but the singleton slot whose factory returns (nil, nil).
C9_ButNilSingleton ==
  \A t \in Threads :
    LET s == ext[t].slot
    IN ( /\ ext[t].done /\ ext[t].retry /\ s \notin ext[t].pre.ok /\ ReadFactoryOk(s)
         /\ ~(s.kind = "ServiceA" /\ ReadFactory(s).result = "nil") )
       => /\ ext[t].inv[s] = 1
          /\ ext[t].err = NoErr
               => /\ BuiltBy(ext[t].instance, s, ReadFactory(s))
                  /\ ReadInstanceOk(s) /\ ReadInstance(s) = ext[t].instance

C9_Witness ==
  \E t \in Threads :
    /\ ext[t].done /\ ext[t].retry /\ ext[t].slot \notin ext[t].pre.ok
    /\ ext[t].err = NoErr /\ ext[t].instance # Nil
    /\ ReadInstance(ext[t].slot) = ext[t].instance

\* C10: named-slot isolation. Instances are kept per name: what is stored under a name
\* is nil or a value built for that name, and two names never hold the same value. A
\* get of B:n whose factory builds a value succeeds whatever happened to the other
\* names: as an external get of the unresolved B:n, and as the request of a factory in a
\* call in which another name was visited and has failed. The factory of a name changes
\* only by a Register of that name.
C10_NamedIsolation ==
  /\ [](
      /\ \A n \in DOMAIN instancesServiceB :
           \/ instancesServiceB[n] = Nil
           \/ /\ instancesServiceB[n].of = "ServiceB:" \o n
              /\ \A m \in DOMAIN instancesServiceB \ {n} :
                   instancesServiceB[m] # instancesServiceB[n]
      /\ \A t \in Threads : \A n \in Names :
           ( /\ ext[t].done /\ ext[t].slot = SlotB(n) /\ SlotB(n) \notin ext[t].pre.ok
             /\ ReadFactory(SlotB(n)) = F1 )
           => /\ ext[t].err = NoErr /\ ext[t].instance.of = "ServiceB:" \o n
              /\ n \in DOMAIN instancesServiceB /\ instancesServiceB[n] = ext[t].instance
      /\ \A t \in Threads : \A n \in Names :
           ( /\ At(t, "get", "factory") /\ Top(t).ret.has /\ Top(t).dep > 1
             /\ Top(t).factory.deps[Top(t).dep - 1] = SlotB(n)
             /\ ReadFactory(SlotB(n)) = F1 )
           => /\ Top(t).ret.err = NoErr /\ n \in DOMAIN instancesServiceB
              /\ Top(t).ret.instance = instancesServiceB[n] )
  /\ [][\A n \in Names :
          ReadFactory(SlotB(n))' # ReadFactory(SlotB(n))
          => \E t \in Threads :
               At(t, "register", "store") /\ Top(t).slot = SlotB(n)]_vars

C10_Witness ==
  \E t \in Threads :
    /\ At(t, "get", "factory") /\ Top(t).slot = SlotB("x") /\ Top(t).factory = Both
    /\ Top(t).dep = 3 /\ Top(t).ret.has /\ Top(t).ret.err = NoErr
    /\ isVisited(Ctx(t), SlotB("x")) /\ ~ReadInstanceOk(SlotB("x"))
    /\ Ctx(t).dependencyGraph = <<"ServiceB:x", "ServiceB:y">>

\* The step in which goroutine t's innermost get finds its slot visited and returns the
\* circular-dependency error to the factory that asked.
Revisit(t) ==
  /\ At(t, "get", "check") /\ ~FastPath(Top(t)) /\ isVisited(Ctx(t), Top(t).slot)
  /\ Len(stack[t]) > 1
  /\ stack'[t] # stack[t]

\* C11: the path of a circular-dependency error. Whenever a get returns a new
\* circular-dependency error, the error's path begins with the slot of the external
\* call and ends with the slot whose factory made the request that found the visit.
C11_PathEnds ==
  [][\A t \in Threads :
       Revisit(t)
       => LET e == stack'[t][Len(stack'[t])].ret.err
              g == e.DependencyGraph
          IN /\ e.type = "CircularDependency" /\ g # <<>>
             /\ g[1] = Label(ext[t].slot)
             /\ g[Len(g)] = Label(stack[t][Len(stack[t]) - 1].slot)]_vars

\* C11, as the code has it: the path is the context's list of the slots visited so far
\* in the order of their first visit. It begins with the slot of the external call,
\* holds the slot the error names and the slot whose factory asked, and ends with the
\* slot visited last.
C11_PathIsVisitOrder ==
  [][\A t \in Threads :
       Revisit(t)
       => LET e == stack'[t][Len(stack'[t])].ret.err
              g == e.DependencyGraph
          IN /\ e.type = "CircularDependency" /\ g = Ctx(t).dependencyGraph
             /\ g[1] = Label(ext[t].slot)
             /\ e.ServiceType = Top(t).slot.kind /\ e.ServiceName = Top(t).slot.name
             /\ Label(Top(t).slot) \in Range(g)
             /\ Label(stack[t][Len(stack[t]) - 1].slot) \in Range(g)
             /\ \A i, j \in 1..Len(g) : g[i] = g[j] => i = j]_vars

\* C12: cycle-detection state is private to an external call. Every external get starts
\* with a context in which nothing is visited and the path is empty, and every
\* circular-dependency error a goroutine's call gets names a slot, and has a path of
\* slots, that this very call has asked for: what another call, earlier or concurrent,
\* has visited never shows in it.
C12_PrivateContext ==
  /\ [][\A t \in Threads :
          (stack[t] = <<>> /\ stack'[t] # <<>> /\ stack'[t][1].op = "get")
          => ctxs'[t] = <<[visitedServiceA |-> FALSE, visitedServiceB |-> <<>>,
                           dependencyGraph |-> <<>>, visitLock |-> 0]>>]_vars
  /\ [](\A t \in Threads :
          LET Private(e) ==
                e.type = "CircularDependency"
                => /\ [kind |-> e.ServiceType, name |-> e.ServiceName] \in ext[t].asked
                   /\ Range(e.DependencyGraph) \subseteq {Label(s) : s \in ext[t].asked}
          IN /\ ext[t].done => Private(ext[t].err)
             /\ stack[t] # <<>> => Private(Top(t).ret.err))

\* Goroutine t's call has ended in a circular-dependency error while the other
\* goroutine's call has visited a slot that t's call never asked for.
C12_Witness ==
  \E t \in Threads : \E u \in Threads \ {t} : \E s \in Slots \ ext[t].asked :
    /\ ext[t].done /\ ext[t].err.type = "CircularDependency"
    /\ stack[u] # <<>> /\ Top(u).op = "get" /\ ctxs[u] # <<>>
    /\ isVisited(ctxs[u][1], s)

\* What goroutine t's innermost get hands back in the step it returns in.
Returned(t) ==
  IF Len(stack[t]) = 1
  THEN [instance |-> ext'[t].instance, err |-> ext'[t].err]
  ELSE [instance |-> stack'[t][Len(stack'[t])].ret.instance,
        err |-> stack'[t][Len(stack'[t])].ret.err]

\* C13: resolved is terminal. In a sequential run, a get (external, or asked by a
\* factory) of a slot for which a factory's value has been stored goes no further than
\* its check, whatever factory is registered by then: it returns the stored value with
\* no error, and no get of that slot marks the slot or calls a factory.
C13_ResolvedTerminal ==
  /\ [](\A t \in Threads : \A i \in DOMAIN stack[t] :
          (stack[t][i].op = "get" /\ stack[t][i].pc \in {"mark", "append", "factory"})
          => built[stack[t][i].slot] = <<>>)
  /\ [][\A t \in Threads :
          ( /\ At(t, "get", "check") /\ built[Top(t).slot] # <<>>
            /\ stack'[t] # stack[t] )
          => /\ Len(stack'[t]) < Len(stack[t])
             /\ Returned(t) = [instance |-> built[Top(t).slot][Len(built[Top(t).slot])],
                               err |-> NoErr]
             /\ invoked' = invoked]_vars

\* C13, for all but a singleton slot whose stored value is nil: with "an instance is
\* stored" read as the get's own test (instance != nil, or the name is in the map).
C13_ButNilSingleton ==
  /\ [](\A t \in Threads : \A i \in DOMAIN stack[t] :
          (stack[t][i].op = "get" /\ stack[t][i].pc \in {"mark", "append", "factory"})
          => ~ReadInstanceOk(stack[t][i].slot))
  /\ [][\A t \in Threads :
          ( /\ At(t, "get", "check") /\ ReadInstanceOk(Top(t).slot)
            /\ stack'[t] # stack[t] )
          => /\ Len(stack'[t]) < Len(stack[t])
             /\ Returned(t) = [instance |-> ReadInstance(Top(t).slot), err |-> NoErr]
             /\ ReadInstance(Top(t).slot)
                  = built[Top(t).slot][Len(built[Top(t).slot])]
             /\ invoked' = invoked]_vars

\* C14: Register never fails and the last write wins. A Register returns once it has
\* put its factory in the slot, whatever the slot held, and touches nothing else of the
\* registry; a slot's factory changes in no other way; so in a sequential run a get of
\* an unresolved slot calls the factory registered last, and what it returns without
\* error is what that factory gives back.
C14_LastWriteWins ==
  /\ [][\A t \in Threads : \A r \in Slots :
          (At(t, "register", "store") /\ Top(t).slot = r /\ stack'[t] # stack[t])
          => /\ ReadFactoryOk(r)' /\ ReadFactory(r)' = Top(t).factory
             /\ \A s \in Slots \ {r} : ReadFactory(s)' = ReadFactory(s)
             /\ UNCHANGED <<instanceServiceA, instancesServiceB>>
             /\ stack'[t] = <<>>]_vars
  /\ [][\A s \in Slots :
          ReadFactory(s)' # ReadFactory(s)
          => \E t \in Threads : At(t, "register", "store") /\ Top(t).slot = s]_vars
  /\ [](\A t \in Threads : \A i \in DOMAIN stack[t] :
          (stack[t][i].op = "get" /\ stack[t][i].pc \in {"factory", "commit", "store"})
          => stack[t][i].factory = ReadFactory(stack[t][i].slot))
  /\ [](\A t \in Threads :
          ( /\ ext[t].done /\ ext[t].slot \notin ext[t].pre.ok /\ ext[t].err = NoErr )
          => /\ ReadFactoryOk(ext[t].slot)
             /\ BuiltBy(ext[t].instance, ext[t].slot, ReadFactory(ext[t].slot)))

\* Two Registers of ServiceA and then one get, which returns a value of the factory
\* registered last.
C14_Witness ==
  \E t \in Threads :
    /\ ext[t].done /\ ext[t].slot = SlotA /\ ext[t].err = NoErr
    /\ nRegs = 2 /\ nCalls = 1 /\ factoriesServiceB = <<>>
    /\ ReadFactory(SlotA) = F1 /\ ext[t].instance.by = "f1"

\* C15: the outcomes of a get. Every get that returns, to the application or to a
\* factory, returns no error, the not-registered error, a factory's error or a
\* circular-dependency error. No error comes with the stored value or with what the
\* registered factory gives back; an error comes with a nil instance, the step that
\* returns it stores nothing, and the external call it ends has left the instance of
\* its slot as it found it.
C15_Outcomes ==
  /\ [](\A t \in Threads :
          LET Shape(r) ==
                /\ r.err.type \in {"nil", "NotRegistered", "Factory", "CircularDependency"}
                /\ r.err.type = "nil" <=> r.err = NoErr
                /\ r.err # NoErr => r.instance = Nil
          IN /\ ext[t].done => Shape(ext[t])
             /\ (stack[t] # <<>> /\ Top(t).ret.has) => Shape(Top(t).ret))
  /\ [](\A t \in Threads :
          LET s == ext[t].slot
          IN ext[t].done
             => IF ext[t].err = NoErr
                THEN \/ s \in ext[t].pre.ok /\ ext[t].instance = ext[t].pre.instance[s]
                     \/ /\ s \notin ext[t].pre.ok /\ ReadFactoryOk(s)
                        /\ BuiltBy(ext[t].instance, s, ReadFactory(s))
                ELSE /\ s \notin ext[t].pre.ok /\ ~ReadInstanceOk(s)
                     /\ ReadInstance(s) = ext[t].pre.instance[s])
  /\ [][\A t \in Threads :
          ( /\ stack[t] # <<>> /\ Top(t).op = "get"
            /\ Len(stack'[t]) < Len(stack[t]) /\ Returned(t).err # NoErr )
          => UNCHANGED registry]_vars

\* A call has ended in a circular-dependency error after another has returned a value.
C15_Witness ==
  \E t \in Threads : \E s \in Slots :
    /\ ext[t].done /\ ext[t].err.type = "CircularDependency" /\ ext[t].instance = Nil
    /\ hist.returned[s] # {}

C17_HandleIndependence ==
  /\ [](\A t \in Threads : \A i, j \in DOMAIN stack[t] :
          (i < j /\ stack[t][i].op = "get" /\ stack[t][i].slot = stack[t][j].slot)
          => stack[t][j].pc \in {"lock", "read", "check"})
  /\ \A t \in Threads : ext[t].active ~> ext[t].done

\* C17, for requests that close no cycle: a factory asking the registry itself for a
\* slot that is not being built gets what it would get from the context: the stored
\* instance, the value the slot's factory builds, or the error of that get.
C17_AcyclicSame ==
  \A t \in Threads : \A b \in Slots \ {ext[t].slot} :
    LET a == ext[t].slot
    IN /\ ( /\ ext[t].done /\ ext[t].pre.ok \cap {a, b} = {}
            /\ ReadFactory(a) = ViaRegistry(Chain(b)) /\ ReadFactory(b) = F1 )
          => /\ ext[t].err = NoErr /\ ext[t].instance.from = <<ReadInstance(b)>>
             /\ ReadInstanceOk(b) /\ BuiltBy(ReadInstance(b), b, F1)
             /\ ReadInstance(a) = ext[t].instance
             /\ ext[t].inv[a] = 1 /\ ext[t].inv[b] = 1
       /\ ( /\ ext[t].done /\ ext[t].pre.ok \cap {a, b} = {}
            /\ ReadFactory(a) = ViaRegistry(Chain(b)) /\ ReadFactory(b) = FErr )
          => /\ ext[t].err = FactoryError(b, invoked[b], FErr) /\ ext[t].instance = Nil
       /\ ( /\ ext[t].done /\ ext[t].pre.ok \cap {a, b} = {}
            /\ ReadFactory(a) = ViaRegistry(Chain(b)) /\ ~ReadFactoryOk(b) )
          => /\ ext[t].err = NotRegisteredError(b) /\ ext[t].instance = Nil

\* C18: the message of a circular-dependency error. The text the application reads off
\* a circular-dependency error is "circular dependency detected for <kind> '<name>': "
\* followed by the labels of the path's slots joined by " -> ", the label of the
\* singleton being its kind and the label of a named slot "<kind>:<name>"; for the
\* cycle of ServiceA and ServiceB:x it is the text written out here.
C18_Message ==
  \A t \in Threads :
    (ext[t].done /\ ext[t].err.type = "CircularDependency")
    => /\ \E r \in Slots : \E n \in 1..Cardinality(Slots) : \E p \in [1..n -> Slots] :
            LET label(s) == IF s.kind = "ServiceA" THEN s.kind
                            ELSE s.kind \o ":" \o s.name
                text(i) == IF i = 1 THEN label(p[i]) ELSE " -> " \o label(p[i])
                path == text(1) \o (IF n >= 2 THEN text(2) ELSE "")
                                \o (IF n >= 3 THEN text(3) ELSE "")
            IN /\ ext[t].msg = "circular dependency detected for " \o r.kind \o " '"
                                 \o r.name \o "': " \o path
               /\ r.kind = ext[t].err.ServiceType /\ r.name = ext[t].err.ServiceName
               /\ ext[t].err.DependencyGraph = [i \in 1..n |-> label(p[i])]
       /\ ( /\ ext[t].slot = SlotA /\ ext[t].pre.ok = {}
            /\ ReadFactory(SlotA) = Chain(SlotB("x"))
            /\ ReadFactory(SlotB("x")) = Chain(SlotA) )
          => ext[t].msg
               = "circular dependency detected for ServiceA '': ServiceA -> ServiceB:x"

C18_Witness ==
  \E t \in Threads :
    /\ ext[t].done /\ ext[t].err.type = "CircularDependency"
    /\ ext[t].err.ServiceType = "ServiceB" /\ ext[t].err.ServiceName = "x"
    /\ Len(ext[t].err.DependencyGraph) = 2
    /\ ext[t].msg # ""

\* C19: the fast path. A get, external or asked by a factory, whose read found an
\* instance returns that instance with no error in its next step and leaves its
\* goroutine's contexts as they were, whether or not the slot is marked visited there;
\* and a get returns a new circular-dependency error only if its read found none.
C19_FastPath ==
  [][\A t \in Threads :
       (At(t, "get", "check") /\ stack'[t] # stack[t])
       => IF Top(t).instanceOk
          THEN /\ Len(stack'[t]) < Len(stack[t])
               /\ Returned(t) = [instance |-> Top(t).instance, err |-> NoErr]
               /\ ctxs'[t] = ctxs[t]
          ELSE /\ Top(t).instance = Nil
               /\ isVisited(Ctx(t), Top(t).slot)
                    <=> /\ Len(stack'[t]) < Len(stack[t])
                        /\ Returned(t).err.type = "CircularDependency"]_vars

\* The factory of a slot has asked for that very slot, marked visited in its context,
\* and has been handed the instance another goroutine stored in the meantime.
C19_Witness ==
  \E t \in Threads :
    /\ At(t, "get", "factory") /\ Top(t).ret.has /\ Top(t).dep > 1
    /\ Top(t).factory.deps[Top(t).dep - 1] = Top(t).slot
    /\ isVisited(Ctx(t), Top(t).slot)
    /\ Top(t).ret.err = NoErr /\ Top(t).ret.instance # Nil
    /\ Top(t).ret.instance = ReadInstance(Top(t).slot)

\* C20: revisit after failure. When a factory that goes on after an error asks for slot
\* d, which has no instance and either no factory or a factory that fails, it gets the
\* not-registered error or the factory's error; when it asks for d again in the same
\* call it gets the circular-dependency error of d with the context's path, d is still
\* marked visited and d's factory has not been called again. A get that finds its slot
\* visited returns the circular-dependency error also when the slot has no factory.
C20_RevisitAfterFailure ==
  /\ [](\A t \in Threads : \A d \in Slots :
          LET fr == Top(t)
              Failing == ~ReadInstanceOk(d) /\ ReadFactory(d) \in {NilFactory, FErr}
          IN ( /\ At(t, "get", "factory") /\ fr.ret.has /\ ~fr.factory.propagate
               /\ fr.dep > 1 /\ fr.factory.deps[fr.dep - 1] = d /\ Failing )
             => /\ fr.ret.instance = Nil /\ isVisited(Ctx(t), d)
                /\ ext[t].inv[d] = IF ReadFactoryOk(d) THEN 1 ELSE 0
                /\ (Len(stack[t]) = 1 /\ fr.dep = 2 /\ d # fr.slot)
                     => fr.ret.err = IF ReadFactoryOk(d)
                                     THEN FactoryError(d, invoked[d], FErr)
                                     ELSE NotRegisteredError(d)
                /\ (fr.dep > 2 /\ fr.factory.deps[fr.dep - 2] = d)
                     => fr.ret.err = newCircularDependencyError(d.kind, d.name,
                                                                 Ctx(t).dependencyGraph))
  /\ [][\A t \in Threads :
          ( /\ At(t, "get", "check") /\ ~Top(t).instanceOk
            /\ isVisited(Ctx(t), Top(t).slot) /\ stack'[t] # stack[t] )
          => /\ Len(stack'[t]) < Len(stack[t])
             /\ Returned(t) = [instance |-> Nil,
                               err |-> newCircularDependencyError(
                                         Top(t).slot.kind, Top(t).slot.name,
                                         Ctx(t).dependencyGraph)]
             /\ invoked' = invoked /\ ctxs'[t] = ctxs[t]]_vars

\* The second request for ServiceB:x, whose factory has failed, has returned the
\* circular-dependency error.
C20_Witness ==
  \E t \in Threads :
    /\ At(t, "get", "factory") /\ Top(t).factory = Again /\ Top(t).dep = 3
    /\ Top(t).ret.has /\ Top(t).ret.err.type = "CircularDependency"
    /\ ReadFactory(SlotB("x")) = FErr /\ ext[t].inv[SlotB("x")] = 1

\* C21: the path is the order of first visits. In a sequential run, whenever a context's
\* lock is free its path holds the labels of exactly the slots marked visited in it,
\* each once; a slot whose factory has been reached is in the path, before the slots
\* its factory went on to ask for; a slot that was resolved when the call began is
\* not in it; and while a call runs a path changes only by the label of the slot being
\* marked coming at its end, never in the step of a get that read an instance.
C21_PathIsVisitOrder ==
  /\ [](\A t \in Threads : \A k \in DOMAIN ctxs[t] :
          LET c == ctxs[t][k]
              g == c.dependencyGraph
          IN c.visitLock = 0
             => /\ \A i, j \in DOMAIN g : g[i] = g[j] => i = j
                /\ Range(g) = {Label(s) : s \in {r \in Slots : isVisited(c, r)}})
  /\ [](\A t \in Threads : \A i, j \in DOMAIN stack[t] :
          LET Reached(fr) == fr.op = "get" /\ fr.pc \in {"factory", "commit", "store"}
              g == ctxs[t][stack[t][i].cx].dependencyGraph
              Pos(l) == CHOOSE n \in DOMAIN g : g[n] = l
          IN /\ Reached(stack[t][i]) => Label(stack[t][i].slot) \in Range(g)
             /\ ( /\ i < j /\ Reached(stack[t][i]) /\ Reached(stack[t][j])
                  /\ stack[t][i].cx = stack[t][j].cx )
                => Pos(Label(stack[t][i].slot)) < Pos(Label(stack[t][j].slot)))
  /\ [](\A t \in Threads : \A k \in DOMAIN ctxs[t] : \A s \in ext[t].pre.ok :
          Label(s) \notin Range(ctxs[t][k].dependencyGraph))
  /\ [][\A t \in Threads : \A k \in DOMAIN ctxs[t] :
          LET g == ctxs[t][k].dependencyGraph
          IN (stack[t] # <<>> /\ k \in DOMAIN ctxs'[t])
             => \/ ctxs'[t][k].dependencyGraph = g
                \/ /\ At(t, "get", "append") /\ Top(t).cx = k /\ ~Top(t).instanceOk
                   /\ ctxs'[t][k].dependencyGraph = Append(g, Label(Top(t).slot))]_vars

\* ServiceB:y's factory runs after the branch of ServiceB:x has returned: the path still
\* holds the three slots in the order they were entered.
C21_Witness ==
  \E t \in Threads :
    /\ At(t, "get", "factory") /\ Len(stack[t]) = 2 /\ Top(t).slot = SlotB("y")
    /\ Ctx(t).dependencyGraph = <<"ServiceA", "ServiceB:x", "ServiceB:y">>

\* C22: duplicate construction under concurrent first access. Every store of a get puts
\* the value its factory built in the slot, whatever the slot holds by then; and when
\* the latest calls of two goroutines, for the same slot, have both called the factory
\* and returned values it built, the two values differ, the factory has run twice and
\* the slot holds one of the two.
C22_DuplicateConstruction ==
  /\ [][\A t \in Threads : \A s \in Slots :
          (At(t, "get", "store") /\ Top(t).slot = s /\ stack'[t] # stack[t])
          => /\ ReadInstance(s)' = Top(t).instance
             /\ Returned(t) = [instance |-> Top(t).instance, err |-> NoErr]]_vars
  /\ [](\A t \in Threads : \A u \in Threads \ {t} :
          LET s == ext[t].slot
          IN ( /\ ext[t].done /\ ext[u].done /\ ext[u].slot = s
               /\ ext[t].inv[s] = 1 /\ ext[u].inv[s] = 1
               /\ ext[t].err = NoErr /\ ext[u].err = NoErr
               /\ ext[t].instance # Nil /\ ext[u].instance # Nil )
             => /\ ext[t].instance # ext[u].instance
                /\ Len(built[s]) >= 2 /\ invoked[s] >= 2
                /\ ReadInstance(s) \in {ext[t].instance, ext[u].instance})

\* Two goroutines have been handed different instances of the same slot; the slot holds
\* the one built second, which was stored last.
C22_Witness ==
  \E t \in Threads : \E u \in Threads \ {t} : \E s \in Slots :
    /\ ext[t].done /\ ext[u].done /\ ext[t].slot = s /\ ext[u].slot = s
    /\ ext[t].inv[s] = 1 /\ ext[u].inv[s] = 1
    /\ ext[t].instance.n = 1 /\ ext[u].instance.n = 2
    /\ ReadInstance(s) = ext[u].instance

----
\* C23: one context used by sibling branches. Whenever the lock of a context is free,
\* its path holds each visited slot exactly once and no other slot, and of two
\* branches asking one context for the same unresolved slot at most one passes the
\* cycle check and calls the factory.
C23_SharedContext ==
  \A t \in Threads : \A k \in DOMAIN ctxs[t] :
    LET c == ctxs[t][k]
        g == c.dependencyGraph
    IN /\ c.visitLock = 0
          => /\ \A i, j \in DOMAIN g : g[i] = g[j] => i = j
             /\ \A s \in Slots : isVisited(c, s) <=> Label(s) \in Range(g)
       /\ \A u \in Threads \ {t} :
            ( /\ stack[t] # <<>> /\ stack[u] # <<>>
              /\ Top(t).op = "get" /\ Top(u).op = "get"
              /\ Home(t) = Home(u) /\ Top(t).cx = Top(u).cx
              /\ Top(t).slot = Top(u).slot )
            => ~( Top(t).pc \in {"mark", "append", "factory", "commit", "store"}
                  /\ Top(u).pc \in {"mark", "append", "factory", "commit", "store"} )

----
\* A goroutine about to call Lock on the registry lock or on a context lock, and one
\* that has got the lock.
Waiting(t) ==
  At(t, "get", "lock") \/ At(t, "get", "commit") \/ At(t, "get", "mark")

Holding(t) ==
  At(t, "get", "read") \/ At(t, "get", "store") \/ At(t, "get", "append")

\* C24: deadlock freedom. A goroutine holds the registry lock only between a Lock and
\* the Unlock that follows it with no call in between, and a context lock only inside
\* markVisited; it never holds both, and never asks for a lock it holds. While a call
\* is under way some goroutine can take a step, and every goroutine waiting for the
\* registry lock or a context lock gets it; a held lock is released.
C24_DeadlockFreedom ==
  /\ [](\A t \in Threads :
          /\ mu = t => /\ stack[t] # <<>> /\ Top(t).pc \in {"read", "store"}
                       /\ \A h \in Threads : \A k \in DOMAIN ctxs[h] :
                            ctxs[h][k].visitLock # t
          /\ \A h \in Threads : \A k \in DOMAIN ctxs[h] :
               ctxs[h][k].visitLock = t
               => /\ stack[t] # <<>> /\ Top(t).pc = "append"
                  /\ Home(t) = h /\ Top(t).cx = k)
  /\ []((\E t \in Threads : stack[t] # <<>>) => \E t \in Threads : ENABLED Step(t))
  /\ \A t \in Threads : Waiting(t) ~> Holding(t)
  /\ (mu # 0) ~> (mu = 0)

\* A goroutine waits for the registry lock inside a factory's request while the other
\* goroutine holds the lock.
C24_Witness ==
  \E t \in Threads : \E u \in Threads \ {t} :
    /\ Len(stack[t]) >= 2 /\ At(t, "get", "lock")
    /\ mu = u /\ ~ENABLED Step(t)
    /\ stack[t][1].pc = "factory"

----
\* The slots the registered factory of s asks for, and the slots a get of s can come to.
Needs(s) == Range(ReadFactory(s).deps)

Reach(s) ==
  LET r1 == Needs(s)
      r2 == r1 \cup UNION {Needs(r) : r \in r1}
  IN r2 \cup UNION {Needs(r) : r \in r2}

\* The registered factories a get of s can come to form no cycle, each slot among them
\* has a factory, and each factory succeeds and asks only the handle it is given.
Sound(s) ==
  \A r \in {s} \cup Reach(s) :
    /\ ReadFactoryOk(r) /\ r \notin Reach(r)
    /\ ReadFactory(r).result # "err" /\ ReadFactory(r).handle = "ctx"

\* C25: no false cycles. An external get of a slot whose factories form no cycle, are
\* all registered and all succeed returns no error, also when one slot is asked for
\* more than once in the call.
C25_NoFalseCycles ==
  [][\A t \in Threads :
       ( /\ Len(stack[t]) = 1 /\ Top(t).op = "get" /\ stack'[t] = <<>>
         /\ Sound(Top(t).slot) )
       => ext'[t].err = NoErr]_vars

\* The same, for calls that come to no singleton factory returning nil: this holds.
C25_ButNilSingleton ==
  [][\A t \in Threads :
       ( /\ Len(stack[t]) = 1 /\ Top(t).op = "get" /\ stack'[t] = <<>>
         /\ Sound(Top(t).slot)
         /\ ~(ReadFactory(SlotA).result = "nil" /\ SlotA \in Reach(Top(t).slot)) )
       => ext'[t].err = NoErr]_vars

----
\* C26: a nil instance returned with no error is a construction like any other, for
\* the singleton slot as for a named one: once a get has stored it the slot is
\* resolved, and the get's own caller and every later get find it so.
C26_NilIsSuccess ==
  [][\A t \in Threads : \A s \in Slots :
       ( /\ At(t, "get", "store") /\ Top(t).slot = s /\ Top(t).instance = Nil
         /\ stack'[t] # stack[t] )
       => /\ ReadInstanceOk(s)'
          /\ Returned(t) = [instance |-> Nil, err |-> NoErr]]_vars

----
\* C27: snapshot. A get reads the slot's instance and factory in one critical section;
\* the factory it calls is the one it read, whatever is registered for the slot in
\* the meantime, and the instance it stores is the one that factory produced.
C27_Snapshot ==
  /\ [][\A t \in Threads : \A s \in Slots :
          (At(t, "get", "read") /\ Top(t).slot = s /\ stack'[t] # stack[t])
          => /\ mu = t /\ registry' = registry
             /\ stack'[t][Len(stack[t])].instance = ReadInstance(s)
             /\ stack'[t][Len(stack[t])].factory = ReadFactory(s)
             /\ stack'[t][Len(stack[t])].factoryOk = ReadFactoryOk(s)]_vars
  /\ [][\A t \in Threads : \A i \in DOMAIN stack[t] :
          (i \in DOMAIN stack'[t] /\ stack[t][i].op = "get"
           /\ stack[t][i].pc \notin {"lock", "read"})
          => /\ stack'[t][i].factory = stack[t][i].factory
             /\ stack'[t][i].factoryOk = stack[t][i].factoryOk]_vars
  /\ [](\A t \in Threads : \A i \in DOMAIN stack[t] :
          LET fr == stack[t][i]
          IN (fr.op = "get" /\ fr.pc \in {"commit", "store"})
             => /\ fr.factoryOk
                /\ fr.instance = IF fr.factory.result = "nil" THEN Nil
                                 ELSE [n |-> fr.k, of |-> Label(fr.slot),
                                       by |-> fr.factory.tag, from |-> fr.got])
  /\ [][\A t \in Threads : \A s \in Slots :
          (At(t, "get", "store") /\ Top(t).slot = s /\ stack'[t] # stack[t])
          => ReadInstance(s)' = Top(t).instance]_vars

\* A get is about to store the value of the factory it read, and another factory has
\* been registered for the slot since the read.
C27_Witness ==
  \E t \in Threads :
    /\ At(t, "get", "store")
    /\ Top(t).factory = F1 /\ ReadFactory(Top(t).slot) = FNil
    /\ Top(t).instance.by = "f1"

----
\* C28: frame conditions. A Register changes the factory of its slot and nothing else
\* in the registry; a step of a get changes no factory, and the only instance it
\* changes is that of the slot whose factory has just returned a value to it in this
\* call, at the store.
C28_Frame ==
  /\ [][\A t \in Threads : \A r \in Slots :
          ( /\ stack[t] # <<>> /\ Top(t).op = "register" /\ Top(t).slot = r
            /\ stack'[t] # stack[t] )
          => /\ instanceServiceA' = instanceServiceA
             /\ instancesServiceB' = instancesServiceB
             /\ ReadFactory(r)' = Top(t).factory /\ ReadFactoryOk(r)'
             /\ \A s \in Slots \ {r} : /\ ReadFactory(s)' = ReadFactory(s)
                                        /\ ReadFactoryOk(s)' = ReadFactoryOk(s)]_vars
  /\ [][\A t \in Threads :
          ( /\ stack'[t] # stack[t]
            /\ \/ stack[t] # <<>> /\ Top(t).op = "get"
               \/ stack[t] = <<>> /\ stack'[t][1].op = "get" )
          => /\ factoryServiceA' = factoryServiceA
             /\ factoriesServiceB' = factoriesServiceB
             /\ \A s \in Slots :
                  ( \/ ReadInstance(s)' # ReadInstance(s)
                    \/ ReadInstanceOk(s)' # ReadInstanceOk(s) )
                  => /\ At(t, "get", "store") /\ Top(t).slot = s
                     /\ ReadInstance(s)' = Top(t).instance
                     /\ Top(t).instance \in Range(built[s])
                     /\ ext[t].inv[s] >= 1]_vars

\* A Register is about to store another factory for a named slot that holds an
\* instance built by the factory registered before.
C28_Witness ==
  \E t \in Threads :
    /\ At(t, "register", "store") /\ Top(t).slot = SlotB("x")
    /\ ReadInstanceOk(SlotB("x")) /\ ReadInstance(SlotB("x")) # Nil
    /\ ReadFactoryOk(SlotB("x")) /\ ReadFactory(SlotB("x")) # Top(t).factory

----
\* C29: partial progress persists. When an external get fails because a request of its
\* factory failed, nothing is stored for its slot, and every slot whose factory returned
\* a value during the call is left resolved with that value; a later get of such a
\* slot returns it from the fast path and calls no factory.
C29_PartialProgress ==
  /\ [][\A t \in Threads : \A s \in Slots :
          ( /\ Len(stack[t]) = 1 /\ Top(t).op = "get" /\ Top(t).slot = s
            /\ stack'[t] = <<>> /\ ext'[t].err # NoErr )
          => /\ ReadInstance(s)' = ext[t].pre.instance[s]
             /\ ReadInstanceOk(s)' = (s \in ext[t].pre.ok)
             /\ \A d \in ext[t].made :
                  /\ ReadInstanceOk(d)'
                  /\ ReadInstance(d)' = built[d][Len(built[d])]]_vars
  /\ [][\A t \in Threads : \A s \in Slots :
          ( /\ At(t, "get", "check") /\ Top(t).slot = s /\ Top(t).instanceOk
            /\ stack'[t] # stack[t] )
          => /\ Returned(t) = [instance |-> Top(t).instance, err |-> NoErr]
             /\ invoked' = invoked]_vars

\* The same, for calls in which no singleton factory returned nil: this holds.
C29_ButNilSingleton ==
  [][\A t \in Threads : \A s \in Slots :
       ( /\ Len(stack[t]) = 1 /\ Top(t).op = "get" /\ Top(t).slot = s
         /\ stack'[t] = <<>> /\ ext'[t].err # NoErr )
       => /\ ReadInstance(s)' = ext[t].pre.instance[s]
          /\ ReadInstanceOk(s)' = (s \in ext[t].pre.ok)
          /\ \A d \in ext[t].made :
               (d = SlotA /\ built[d][Len(built[d])] = Nil)
               \/ ( /\ ReadInstanceOk(d)'
                    /\ ReadInstance(d)' = built[d][Len(built[d])] )]_vars

\* An external get fails after ServiceA, its factory's first request, was built.
C29_Case ==
  \E t \in Threads :
    /\ ext[t].done /\ ext[t].err # NoErr /\ ext[t].slot # SlotA
    /\ SlotA \in ext[t].made /\ ReadInstanceOk(SlotA)
    /\ ~ReadInstanceOk(ext[t].slot)

----
\* The get calls for slot s that are under way.
InFlight(s) ==
  {t \in Threads : \E i \in DOMAIN stack[t] : stack[t][i].op = "get" /\ stack[t][i].slot = s}

\* C30: provenance of the memoized value. The instance a slot holds is a value that a
\* factory call for that slot returned with no error, the factory being the one the
\* storing get read for that slot; and once no get of the slot is under way, the
\* instance it holds is the value handed to a caller whose get called the factory,
\* the one that stored last.
C30_Provenance ==
  /\ [](\A s \in Slots :
          ReadInstanceOk(s)
          => /\ ReadInstance(s) \in Range(built[s])
             /\ ReadInstance(s) # Nil => ReadInstance(s).of = Label(s))
  /\ [][\A t \in Threads : \A s \in Slots :
          (At(t, "get", "store") /\ Top(t).slot = s /\ stack'[t] # stack[t])
          => /\ Top(t).factoryOk
             /\ Top(t).instance \in Range(built[s])
             /\ Top(t).instance # Nil => Top(t).instance.by = Top(t).factory.tag
             /\ ext[t].inv[s] >= 1
             /\ ReadInstance(s)' = Top(t).instance
             /\ Returned(t).instance = ReadInstance(s)']_vars
  /\ [](\A s \in Slots :
          (ReadInstanceOk(s) /\ InFlight(s) = {})
          => /\ ReadInstance(s) \in hist.returned[s]
             /\ invoked[s] >= 1)

\* Two gets of one slot have both returned; the value built by the first factory call
\* was stored last and is the one the slot holds.
C30_Witness ==
  \E t \in Threads : \E u \in Threads \ {t} : \E s \in Slots :
    /\ InFlight(s) = {} /\ ReadInstanceOk(s)
    /\ ext[t].done /\ ext[u].done /\ ext[t].slot = s /\ ext[u].slot = s
    /\ ext[t].instance.n = 2 /\ ext[u].instance.n = 1
    /\ ReadInstance(s) = ext[u].instance
    /\ hist.returned[s] = {ext[t].instance, ext[u].instance}

----
\* C31: in every variant of the registry, a get of a named slot whose factory returned
\* nil and no error comes to its end normally: the nil is stored under the name and
\* returned with no error, and the registry lock is released.
C31_NilNamedCompletes ==
  [][\A t \in Threads : \A s \in Slots :
       ( /\ At(t, "get", "store") /\ Top(t).slot = s /\ s.kind = "ServiceB"
         /\ Top(t).instance = Nil /\ stack'[t] # stack[t] )
       => /\ ReadInstanceOk(s)' /\ ReadInstance(s)' = Nil
          /\ Returned(t) = [instance |-> Nil, err |-> NoErr]
          /\ mu' = 0]_vars

====
